---------------------------- MODULE Spec2Model ----------------------------
(***************************************************************************)
(* Verification model of the Chronoxide solver core.                       *)
(*                                                                         *)
(*  - the SAT engine of src/sat/solver.rs (two-watched-literal unit        *)
(*    propagation, propagation queue, listeners, conflict hook);           *)
(*  - the bound ledgers of an LA variable of src/lin/var.rs;               *)
(*  - the arithmetic of src/utils/rational.rs and src/utils/lin.rs and the *)
(*    bounds of a linear form, lb_lin and ub_lin of src/lin/solver.rs;     *)
(*  - the arithmetic composition of objects, new_sum and new_sub of        *)
(*    src/lib.rs.                                                          *)
(*                                                                         *)
(* Indices: Rust vectors are 0-based, TLA+ sequences are 1-based.  Variable*)
(* ids, clause ids and positions inside a clause are all shifted by one:   *)
(* Rust variable 0 is variable 1 here, clause position 0 ("first watched   *)
(* literal") is position 1 here, position 1 is position 2, and the         *)
(* unwatched tail c[2..] is positions 3..Len(c).  Option::None is None.    *)
(***************************************************************************)
EXTENDS Integers, Sequences, FiniteSets

\* ---------------------------------------------------------------- bounds
MaxVars == 2        \* variables the SAT engine allocates
MaxLits == 3        \* literal occurrences in the registered clauses (Spec)
WideLits == 4       \* the same, where two clauses are needed (WideSpec)
ListenLits == 2     \* the same, where listeners are registered (ListenSpec)
MaxListeners == 1   \* listeners registered, all together (ListenSpec)
TriVars == 3        \* variables the SAT engine allocates (TriSpec)
TriLits == 3        \* literal occurrences in the registered clauses (TriSpec)
QueueLits == 4      \* the same, where the clauses have two literals (QueueSpec)
MaxBound == 2       \* LA bounds are the first MaxBound of 1, 1 + eps, 2, 2 + eps, ...
MaxReasons == 2     \* reasons (constraint indices) of LA bounds
MaxSupports == 4    \* (bound, reason) pairs the two ledgers hold, all together
MaxNum == 2         \* integers -MaxNum..MaxNum are the arguments of the numeric calls
MaxMag == 16        \* a Rational is followed while |num| <= MaxMag and den <= MaxMag
MaxLinVars == 2     \* LA variables a linear form ranges over
MaxObjects == 3     \* objects the modelling layer hands out
MaxComposed == 1    \* of these, objects handed out by new_sum and new_sub
MaxTerms == 2       \* operands of one new_sum or new_sub

\* ------------------------------------------------------------ SAT state
VARIABLES
    vars,       \* Solver.vars: Vec<Var>
    clauses,    \* Solver.clauses: Vec<Vec<Lit>>
    prop_q,     \* Solver.prop_q: VecDeque<usize>
    listeners,  \* Solver.listeners: HashMap<usize, Vec<Callback>>
    analyzed,   \* trace of the calls made to analyze_conflict
    late        \* history: a clause was registered after some assignment

satVars == <<vars, clauses, prop_q, listeners, analyzed, late>>

\* ------------------------------------------------------------- LA state
VARIABLES
    val,        \* lin::Var.val: InfRational
    lbs,        \* lin::Var.lbs: BTreeMap<InfRational, HashSet<usize>>
    ubs         \* lin::Var.ubs: BTreeMap<InfRational, HashSet<usize>>

laVars == <<val, lbs, ubs>>

\* ---------------------------------------------------------- numeric state
VARIABLES
    acc,        \* a Rational, the left operand of the in-place operators
    lin,        \* a Lin, the left operand of the in-place operators
    lvars,      \* lin::Solver.vars: Vec<Var>, the ledgers of each LA variable
    out         \* the last value returned by lb_lin or ub_lin

numVars == <<acc, lin, lvars, out>>

\* ------------------------------------------------------ modelling layer
VARIABLE objects    \* the objects the modelling layer has handed out

VARIABLE panicked   \* an assert! or panic! of the program fired: the process is gone

allVars == <<satVars, laVars, numVars, objects, panicked>>

None == 0

\* utils/lit.rs: Lit { x, sign }
Lit(x, sign) == [x |-> x, sign |-> sign]

\* sat/solver.rs: Var::default()
VarDefault ==
    [value |-> "Undef", current_level_vars |-> <<>>, decision_var |-> None,
     reason |-> None, pos_clauses |-> <<>>, neg_clauses |-> <<>>]

\* The solver as a public call finds it.  Four traces are kept for the
\* duration of one call only: notified, the listener invocations made by
\* notify; trail, the variables in the order enqueue assigned them;
\* dequeued, the variables in the order pop_front handed them out; calls,
\* the calls of propagate in the order they were made.
State == [vars |-> vars, clauses |-> clauses, prop_q |-> prop_q,
          analyzed |-> analyzed, notified |-> <<>>, trail |-> <<>>,
          dequeued |-> <<>>, calls |-> <<>>]

\* The fields of the solver, without the traces
Fields(s) == [vars |-> s.vars, clauses |-> s.clauses, prop_q |-> s.prop_q]

Range(q) == {q[i] : i \in 1..Len(q)}

\* Vec::swap on a clause
Swap(c, i, j) == [k \in 1..Len(c) |-> IF k = i THEN c[j] ELSE IF k = j THEN c[i] ELSE c[k]]

\* Solver::value
value(s, var) == s.vars[var].value

\* Solver::lit_value
lit_value(s, lit) ==
    IF value(s, lit.x) = "Undef" THEN "Undef"
    ELSE IF (value(s, lit.x) = "True") = lit.sign THEN "True" ELSE "False"

\* watch_lit with the sign test lost: every watch lands in pos_clauses
watch_lit_unsigned(s, lit, clause_id) ==
    [s EXCEPT !.vars[lit.x].pos_clauses = Append(@, clause_id)]

\* Solver::watch_lit, and the same inlined code in add_clause and propagate
watch_lit(s, lit, clause_id) ==
    IF lit.sign
    THEN [s EXCEPT !.vars[lit.x].pos_clauses = Append(@, clause_id)]
    ELSE [s EXCEPT !.vars[lit.x].neg_clauses = Append(@, clause_id)]

\* Solver::notify: every listener of var, in registration order, is called
\* with (&Solver, var); the trace keeps the value the callback can read.
notify(s, var) ==
    [s EXCEPT !.notified = @ \o
        [i \in 1..Len(listeners[var]) |->
            [cb |-> listeners[var][i], var |-> var, seen |-> value(s, var)]]]

\* enqueue with the listeners called before the assignment is stored
enqueue_early(s, lit, reason) ==
    IF value(s, lit.x) = "Undef"
    THEN LET s1 == notify(s, lit.x)
         IN [st |-> [s1 EXCEPT !.vars[lit.x].value = IF lit.sign THEN "True" ELSE "False",
                               !.vars[lit.x].reason = reason,
                               !.prop_q = Append(@, lit.x),
                               !.trail = Append(@, lit.x)],
             ok |-> TRUE]
    ELSE IF value(s, lit.x) = "True"
    THEN [st |-> s, ok |-> lit.sign]
    ELSE [st |-> s, ok |-> ~lit.sign]

\* Solver::enqueue
enqueue(s, lit, reason) ==
    IF value(s, lit.x) = "Undef"
    THEN LET s1 == [s EXCEPT !.vars[lit.x].value = IF lit.sign THEN "True" ELSE "False",
                             !.vars[lit.x].reason = reason,
                             !.prop_q = Append(@, lit.x),
                             !.trail = Append(@, lit.x)]
         IN [st |-> notify(s1, lit.x), ok |-> TRUE]
    ELSE IF value(s, lit.x) = "True"
    THEN [st |-> s, ok |-> lit.sign]
    ELSE [st |-> s, ok |-> ~lit.sign]

\* The scan with the test `== LBool::Undef`: a True literal is passed over
UndefTail(s, clause_id) ==
    {i \in 3..Len(s.clauses[clause_id]) : lit_value(s, s.clauses[clause_id][i]) = "Undef"}

\* The positions i >= 2 (here >= 3) scanned by propagate whose literal is not False
NotFalseTail(s, clause_id) ==
    {i \in 3..Len(s.clauses[clause_id]) : lit_value(s, s.clauses[clause_id][i]) # "False"}

Min(S) == CHOOSE m \in S : \A n \in S : m <= n

\* The satisfied branch pushing the clause on the list of position 0
rewatch_first(s, clause_id) == watch_lit(s, s.clauses[clause_id][1], clause_id)

\* Solver::propagate, the branch of a satisfied clause: the clause goes back
\* on the list of the literal at position 1 (here 2), by its sign
rewatch(s, clause_id) == watch_lit(s, s.clauses[clause_id][2], clause_id)

\* propagate without the unit rule: a clause with no replacement watch is
\* put back and left alone
propagate_no_unit(s, clause_id, var) ==
    LET s1 == IF s.clauses[clause_id][1].x = var
              THEN [s EXCEPT !.clauses[clause_id] = Swap(@, 1, 2)]
              ELSE s
    IN  IF lit_value(s1, s1.clauses[clause_id][1]) = "True"
        THEN [st |-> rewatch(s1, clause_id), ok |-> TRUE]
        ELSE IF NotFalseTail(s1, clause_id) # {}
        THEN LET i  == Min(NotFalseTail(s1, clause_id))
                 s2 == [s1 EXCEPT !.clauses[clause_id] = Swap(@, 2, i)]
             IN [st |-> watch_lit(s2, s2.clauses[clause_id][2], clause_id), ok |-> TRUE]
        ELSE [st |-> watch_lit(s1, s1.clauses[clause_id][2], clause_id), ok |-> TRUE]

\* Solver::propagate
propagate(s, clause_id, var) ==
    LET s1 == IF s.clauses[clause_id][1].x = var
              THEN [s EXCEPT !.clauses[clause_id] = Swap(@, 1, 2)]
              ELSE s
    IN  IF lit_value(s1, s1.clauses[clause_id][1]) = "True"
        THEN [st |-> rewatch(s1, clause_id), ok |-> TRUE]
        ELSE IF NotFalseTail(s1, clause_id) # {}
        THEN LET i  == Min(NotFalseTail(s1, clause_id))
                 s2 == [s1 EXCEPT !.clauses[clause_id] = Swap(@, 2, i)]
             IN [st |-> watch_lit(s2, s2.clauses[clause_id][2], clause_id), ok |-> TRUE]
        ELSE LET s2 == IF value(s1, var) = "True"
                       THEN [s1 EXCEPT !.vars[var].pos_clauses = Append(@, clause_id)]
                       ELSE [s1 EXCEPT !.vars[var].neg_clauses = Append(@, clause_id)]
             IN enqueue(s2, s2.clauses[clause_id][1], clause_id)

\* VecDeque::pop_back in the place of pop_front: the queue is a stack
pop_back(q) == [var |-> q[Len(q)], rest |-> SubSeq(q, 1, Len(q) - 1)]

\* VecDeque::pop_front on a queue that is not empty
pop_front(q) == [var |-> Head(q), rest |-> Tail(q)]

\* Solver::analyze_conflict is an empty hook; the model records its arguments.
analyze_conflict(s, clause_id, current_level_vars) ==
    [s EXCEPT !.analyzed = Append(@, [clause_id |-> clause_id,
                                      current_level_vars |-> current_level_vars])]

RECURSIVE drain(_, _), for_clauses(_, _, _, _)

\* Solver::assert, the body of `for clause_id in clauses`
for_clauses(s, cls, var, lit) ==
    IF cls = <<>> THEN drain(s, lit)
    ELSE LET r == propagate(s, Head(cls), var)
             t == [r.st EXCEPT !.calls =
                      Append(@, [clause_id |-> Head(cls), var |-> var, ok |-> r.ok,
                                 before |-> Fields(s), after |-> Fields(r.st)])]
         IN IF ~r.ok
            THEN LET current_level_vars == t.vars[lit.x].current_level_vars
                     s1 == [t EXCEPT !.vars[lit.x].current_level_vars = <<>>]
                 IN [st |-> analyze_conflict(s1, Head(cls), current_level_vars), ret |-> FALSE]
            ELSE for_clauses(t, Tail(cls), var, lit)

\* Solver::assert, the loop `while let Some(var) = self.prop_q.pop_front()`
drain(s, lit) ==
    IF s.prop_q = <<>> THEN [st |-> s, ret |-> TRUE]
    ELSE LET var == pop_front(s.prop_q).var
             s1  == [s EXCEPT !.prop_q = pop_front(@).rest,
                              !.dequeued = Append(@, var),
                              !.vars[lit.x].current_level_vars = Append(@, var)]
             s2  == [s1 EXCEPT !.vars[var].decision_var = lit.x]
         IN IF value(s2, var) = "True"
            THEN for_clauses([s2 EXCEPT !.vars[var].neg_clauses = <<>>],
                             s2.vars[var].neg_clauses, var, lit)
            ELSE for_clauses([s2 EXCEPT !.vars[var].pos_clauses = <<>>],
                             s2.vars[var].pos_clauses, var, lit)

\* assert that records the newest clause as the reason of the asserted literal
assert_reasoned(s, lit) == drain(enqueue(s, lit, Len(s.clauses)).st, lit)

\* Solver::assert (written assert_ here)
assert_(s, lit) == drain(enqueue(s, lit, None).st, lit)

\* add_clause that watches the first literal only
add_clause_one_watch(s, lits) ==
    IF lits = <<>> THEN [st |-> s, ret |-> FALSE]
    ELSE IF Len(lits) = 1 THEN assert_(s, lits[1])
    ELSE LET clause_id == Len(s.clauses) + 1
             s1 == watch_lit(s, lits[1], clause_id)
         IN [st |-> [s1 EXCEPT !.clauses = Append(@, lits)], ret |-> TRUE]

\* Solver::add_clause
add_clause(s, lits) ==
    IF lits = <<>> THEN [st |-> s, ret |-> FALSE]
    ELSE IF Len(lits) = 1 THEN assert_(s, lits[1])
    ELSE LET clause_id == Len(s.clauses) + 1
             s1 == watch_lit(s, lits[1], clause_id)
             s2 == watch_lit(s1, lits[2], clause_id)
         IN [st |-> [s2 EXCEPT !.clauses = Append(@, lits)], ret |-> TRUE]

\* ---------------------------------------------------------- SAT actions
Lits == {Lit(x, sg) : x \in 1..Len(vars), sg \in BOOLEAN}

RECURSIVE SeqsUpTo(_, _)
SeqsUpTo(S, n) ==
    IF n = 0 THEN {<<>>}
    ELSE LET P == SeqsUpTo(S, n - 1)
         IN P \cup {Append(q, e) : q \in {p \in P : Len(p) = n - 1}, e \in S}

\* Literal occurrences in the registered clauses
RECURSIVE Occurrences(_)
Occurrences(cs) == IF cs = <<>> THEN 0 ELSE Len(Head(cs)) + Occurrences(Tail(cs))

\* The argument of add_clause: the empty clause, a unit clause, or a clause
\* of two or more literals that still fits in the clause database.
ClauseInputs(maxLits) ==
    LET room == maxLits - Occurrences(clauses)
    IN SeqsUpTo(Lits, IF room >= 2 THEN room ELSE 1)

SomeAssigned == \E v \in 1..Len(vars) : vars[v].value # "Undef"

Commit(r) ==
    /\ vars' = r.st.vars
    /\ clauses' = r.st.clauses
    /\ prop_q' = r.st.prop_q
    /\ analyzed' = r.st.analyzed

\* Solver::add_var
AddVarWithin(maxVars) ==
    /\ ~panicked
    /\ Len(vars) < maxVars
    /\ vars' = Append(vars, VarDefault)
    /\ listeners' = Append(listeners, <<>>)
    /\ UNCHANGED <<clauses, prop_q, analyzed, late, panicked, laVars, numVars, objects>>

\* Solver::add_clause
AddClauseFrom(inputs) ==
    \E lits \in inputs :
        /\ ~panicked
        /\ Commit(add_clause(State, lits))
        /\ late' = (late \/ (Len(lits) >= 2 /\ SomeAssigned))
        /\ UNCHANGED <<listeners, panicked, laVars, numVars, objects>>

AddClauseWithin(maxLits) == AddClauseFrom(ClauseInputs(maxLits))

\* The argument of add_clause where the queue is followed: clauses of two
\* literals over two variables, registered before the first assignment
QueueClauseInputs ==
    {lits \in ClauseInputs(QueueLits) :
        Len(lits) = 2 /\ lits[1].x # lits[2].x /\ ~SomeAssigned}

\* A clause that mentions no variable twice
Distinct(lits) == \A i, j \in 1..Len(lits) : lits[i].x = lits[j].x => i = j

\* The argument of add_clause where three variables are followed: clauses
\* that mention no variable twice, registered before the first assignment
TriClauseInputs ==
    {lits \in ClauseInputs(TriLits) : Distinct(lits) /\ Len(lits) >= 2 /\ ~SomeAssigned}

AddVar == AddVarWithin(MaxVars)
AddVarTri == AddVarWithin(TriVars)

AddClause == AddClauseWithin(MaxLits)
AddClauseTri == AddClauseFrom(TriClauseInputs)
AddClauseQueue == AddClauseFrom(QueueClauseInputs)
AddClauseWide == AddClauseWithin(WideLits)
AddClauseListen == AddClauseWithin(ListenLits)

\* Solver::assert
AssertLit ==
    \E lit \in Lits :
        /\ ~panicked
        /\ Commit(assert_(State, lit))
        /\ UNCHANGED <<listeners, late, panicked, laVars, numVars, objects>>

\* retract with the second assert! lost: an unassigned variable passes
retract_unchecked(s, var) ==
    IF ~(var <= Len(s.vars)) THEN [st |-> s, panic |-> TRUE]
    ELSE [st |-> s, panic |-> FALSE]

\* Solver::retract: the two assert! lines, and nothing after them
retract(s, var) ==
    IF ~(var <= Len(s.vars)) THEN [st |-> s, panic |-> TRUE]
    ELSE IF ~(value(s, var) # "Undef") THEN [st |-> s, panic |-> TRUE]
    ELSE [st |-> s, panic |-> FALSE]

\* A retract that unassigns: the variable goes back to Undef with no reason
RetractUndoing ==
    \E var \in 1..(Len(vars) + 1) :
        /\ ~panicked
        /\ Commit(IF retract(State, var).panic THEN retract(State, var)
                  ELSE [st |-> [State EXCEPT !.vars[var].value = "Undef",
                                             !.vars[var].reason = None]])
        /\ panicked' = retract(State, var).panic
        /\ UNCHANGED <<listeners, late, laVars, numVars, objects>>

Retract ==
    \E var \in 1..(Len(vars) + 1) :
        /\ ~panicked
        /\ Commit(retract(State, var))
        /\ panicked' = retract(State, var).panic
        /\ UNCHANGED <<listeners, late, laVars, numVars, objects>>

\* Solver::add_listener; callbacks are named 1, 2, ... in registration order
ListenerCount ==
    LET RECURSIVE Sum(_)
        Sum(n) == IF n = 0 THEN 0 ELSE Len(listeners[n]) + Sum(n - 1)
    IN Sum(Len(listeners))

AddListener ==
    \E var \in 1..Len(vars) :
        /\ ~panicked
        /\ ListenerCount < MaxListeners
        /\ listeners' = [listeners EXCEPT ![var] = Append(@, ListenerCount + 1)]
        /\ UNCHANGED <<vars, clauses, prop_q, analyzed, late, panicked, laVars, numVars, objects>>

\* Solver::new
SatInit ==
    /\ vars = <<>>
    /\ clauses = <<>>
    /\ prop_q = <<>>
    /\ listeners = <<>>
    /\ analyzed = <<>>
    /\ late = FALSE

\* ------------------------------------------------------------ numerics
\* utils/rational.rs: Rational { num, den }
Rational(num, den) == [num |-> num, den |-> den]

\* utils/inf_rational.rs: InfRational { rat, inf }
InfRational(rat, inf) == [rat |-> rat, inf |-> inf]

RationalZERO == Rational(0, 1)
RationalPOSITIVE_INFINITY == Rational(1, 0)
RationalNEGATIVE_INFINITY == Rational(-1, 0)

POSITIVE_INFINITY == InfRational(RationalPOSITIVE_INFINITY, RationalZERO)
NEGATIVE_INFINITY == InfRational(RationalNEGATIVE_INFINITY, RationalZERO)

\* InfRational::from_integer, for the integers the model draws
from_integer(arg) == InfRational(Rational(arg, 1), RationalZERO)

\* i64::partial_cmp
IntCmp(a, b) == IF a < b THEN "Less" ELSE IF a = b THEN "Equal" ELSE "Greater"

\* PartialOrd for Rational
RationalCmp(a, b) == IntCmp(a.num * b.den, b.num * a.den)

\* PartialOrd for InfRational
partial_cmp(a, b) ==
    IF RationalCmp(a.rat, b.rat) = "Equal" THEN RationalCmp(a.inf, b.inf)
    ELSE RationalCmp(a.rat, b.rat)

lt(a, b) == partial_cmp(a, b) = "Less"
le(a, b) == partial_cmp(a, b) \in {"Less", "Equal"}
gt(a, b) == partial_cmp(a, b) = "Greater"
ge(a, b) == partial_cmp(a, b) \in {"Greater", "Equal"}

\* The order of the extended rationals, as arithmetic has it
IsInf(q) == q.den = 0
TrueLess(p, q) ==
    IF IsInf(p) /\ IsInf(q) THEN p.num < q.num
    ELSE IF IsInf(p) THEN p.num < 0
    ELSE IF IsInf(q) THEN q.num > 0
    ELSE p.num * q.den < q.num * p.den

\* The order of rat + inf * eps: by rat, then by inf
Below(a, b) == TrueLess(a.rat, b.rat) \/ (a.rat = b.rat /\ TrueLess(a.inf, b.inf))

\* ------------------------------------------------- Rational arithmetic
\* A call returns a value, or it panics.  The magnitudes followed stay far
\* below 2^63, so that no i64 operation of the calls below overflows.
Ok(v) == [val |-> v, panic |-> FALSE]
Fail(v) == [val |-> v, panic |-> TRUE]

\* i64::abs
Abs(x) == IF x < 0 THEN -x ELSE x

\* i64 `/`: the quotient truncated toward zero (b # 0)
RustDiv(a, b) ==
    IF (a >= 0) = (b > 0) THEN Abs(a) \div Abs(b) ELSE -(Abs(a) \div Abs(b))

\* i64 `%`: the remainder with the sign of the dividend (b # 0)
RustRem(a, b) == a - b * RustDiv(a, b)

\* utils/rational.rs: fn gcd
RECURSIVE gcd(_, _)
gcd(a, b) == IF b = 0 THEN a ELSE gcd(b, RustRem(a, b))

\* normalize that forgets to move the sign to the numerator
normalize_unsigned(q) ==
    LET g == Abs(gcd(q.num, q.den))
    IN IF g = 0 THEN Fail(q)
       ELSE Ok(Rational(RustDiv(q.num, g), RustDiv(q.den, g)))

\* Rational::normalize; dividing by a gcd of 0 panics
normalize(q) ==
    LET g == Abs(gcd(q.num, q.den))
    IN IF g = 0 THEN Fail(q)
       ELSE LET n == RustDiv(q.num, g)
                d == RustDiv(q.den, g)
            IN IF d < 0 THEN Ok(Rational(-n, -d)) ELSE Ok(Rational(n, d))

\* Rational::new
RationalNew(num, den) ==
    IF ~(num # 0 \/ den # 0) THEN Fail(Rational(num, den))
    ELSE normalize(Rational(num, den))

\* Neg for Rational
neg(self) == RationalNew(-self.num, self.den)

\* add_assign that accepts the sum of the two infinities
add_assign_unchecked(self, other) ==
    IF self.den = 0 THEN Ok(self)
    ELSE IF other.den = 0 THEN Ok(other)
    ELSE LET g == gcd(self.den, other.den)
             den == RustDiv(other.den, g)
         IN normalize(Rational(self.num * den + other.num * RustDiv(self.den, g),
                               self.den * den))

\* AddAssign for Rational (by value and by reference; Add goes through it)
add_assign(self, other) ==
    IF self.den = 0
    THEN IF other.den = 0 /\ self.num # other.num THEN Fail(self) ELSE Ok(self)
    ELSE IF other.den = 0 THEN Ok(other)
    ELSE LET g == gcd(self.den, other.den)
             den == RustDiv(other.den, g)
         IN normalize(Rational(self.num * den + other.num * RustDiv(self.den, g),
                               self.den * den))

\* AddAssign<i64> for Rational
add_assign_i64(self, other) == normalize(Rational(self.num + other * self.den, self.den))

\* SubAssign for Rational
sub_assign(self, other) ==
    IF self.den = 0
    THEN IF other.den = 0 /\ self.num = other.num THEN Fail(self) ELSE Ok(self)
    ELSE IF other.den = 0 THEN neg(other)
    ELSE LET g == gcd(self.den, other.den)
             den == RustDiv(other.den, g)
         IN normalize(Rational(self.num * den - other.num * RustDiv(self.den, g),
                               self.den * den))

\* SubAssign<i64> for Rational
sub_assign_i64(self, other) == normalize(Rational(self.num - other * self.den, self.den))

\* MulAssign for Rational
mul_assign(self, other) ==
    IF (self.num = 0 /\ other.den = 0) \/ (self.den = 0 /\ other.num = 0) THEN Fail(self)
    ELSE LET g1 == Abs(gcd(self.num, other.den))
             g2 == Abs(gcd(other.num, self.den))
         IN normalize(Rational(RustDiv(self.num, g1) * RustDiv(other.num, g2),
                               RustDiv(self.den, g2) * RustDiv(other.den, g1)))

\* MulAssign<i64> for Rational
mul_assign_i64(self, other) ==
    IF self.den = 0 /\ other = 0 THEN Fail(self)
    ELSE LET g == Abs(gcd(other, self.den))
         IN normalize(Rational(self.num * RustDiv(other, g), RustDiv(self.den, g)))

\* DivAssign for Rational
div_assign(self, other) ==
    IF self.num = 0 /\ other.num = 0 THEN Fail(self)
    ELSE IF self.den = 0 /\ other.den = 0 THEN Fail(self)
    ELSE LET g1 == Abs(gcd(self.num, other.num))
             g2 == Abs(gcd(other.den, self.den))
         IN normalize(Rational(RustDiv(self.num, g1) * RustDiv(other.den, g2),
                               RustDiv(self.den, g2) * RustDiv(other.num, g1)))

\* DivAssign<i64> for Rational
div_assign_i64(self, other) ==
    IF self.num = 0 /\ other = 0 THEN Fail(self)
    ELSE LET g == Abs(gcd(self.num, other))
         IN normalize(Rational(RustDiv(self.num, g), self.den * RustDiv(other, g)))

\* The integers and the Rationals the calls are made with
Ints == (-MaxNum)..MaxNum
RatOperands == {RationalNew(n, d).val : n \in Ints, d \in Ints} \ {Rational(0, 0)}

\* The Rationals that are followed
Small(q) == Abs(q.num) <= MaxMag /\ q.den <= MaxMag

RatCommit(r) ==
    /\ r.panic \/ Small(r.val)
    /\ acc' = (IF r.panic THEN acc ELSE r.val)
    /\ panicked' = r.panic
    /\ UNCHANGED <<satVars, laVars, lin, lvars, out, objects>>

\* Rational::new(n, d)
New == \E n \in Ints, d \in Ints : ~panicked /\ RatCommit(RationalNew(n, d))

\* acc += b, acc -= b, acc *= b, acc /= b with a Rational b
AddAssign == \E b \in RatOperands : ~panicked /\ RatCommit(add_assign(acc, b))
SubAssign == \E b \in RatOperands : ~panicked /\ RatCommit(sub_assign(acc, b))
MulAssign == \E b \in RatOperands : ~panicked /\ RatCommit(mul_assign(acc, b))
DivAssign == \E b \in RatOperands : ~panicked /\ RatCommit(div_assign(acc, b))

\* acc += k, acc -= k, acc *= k, acc /= k with an integer k
AddAssignInt == \E k \in Ints : ~panicked /\ RatCommit(add_assign_i64(acc, k))
SubAssignInt == \E k \in Ints : ~panicked /\ RatCommit(sub_assign_i64(acc, k))
MulAssignInt == \E k \in Ints : ~panicked /\ RatCommit(mul_assign_i64(acc, k))
DivAssignInt == \E k \in Ints : ~panicked /\ RatCommit(div_assign_i64(acc, k))

\* acc = -acc
Neg == ~panicked /\ RatCommit(neg(acc))

\* Rational::ZERO, before any call
RatInit == acc = RationalZERO

\* ------------------------------------------------------------- LA engine
\* The variable as a method of lin::Var finds it
LaVar == [val |-> val, lbs |-> lbs, ubs |-> ubs]

\* lin::Var::new
VarNew == [val |-> from_integer(0), lbs |-> <<>>, ubs |-> <<>>]

\* BTreeMap iteration order: iter().next() and iter().next_back()
FirstKey(m) == CHOOSE k \in DOMAIN m : \A k2 \in DOMAIN m : ~gt(k, k2)
LastKey(m) == CHOOSE k \in DOMAIN m : \A k2 \in DOMAIN m : ~lt(k, k2)

\* BTreeMap::remove of a set of keys
RemoveKeys(m, K) == [k \in DOMAIN m \ K |-> m[k]]

\* BTreeMap lookup: the map finds a key by comparison, so the stored keys
\* that answer to k are those that compare Equal to it.  (For finite
\* normalized keys that is k itself.)
Stored(m, k) == {j \in DOMAIN m : partial_cmp(j, k) = "Equal"}

\* BTreeMap::entry(k).or_default().insert(r); an occupied entry keeps its key
InsertReason(m, k, r) ==
    IF Stored(m, k) # {}
    THEN [j \in DOMAIN m |-> IF j \in Stored(m, k) THEN m[j] \cup {r} ELSE m[j]]
    ELSE [j \in DOMAIN m \cup {k} |-> IF j = k THEN {r} ELSE m[j]]

\* The removal that forgets to drop a key left without reasons
RemoveReason_keeps_key(m, k, r) ==
    [j \in DOMAIN m |-> IF j \in Stored(m, k) THEN m[j] \ {r} ELSE m[j]]

\* HashSet::remove(reason) on the set stored at k, and BTreeMap::remove(k)
\* when that set is left empty
RemoveReason(m, k, r) ==
    LET emptied == {j \in Stored(m, k) : m[j] \ {r} = {}}
    IN [j \in DOMAIN m \ emptied |-> IF j \in Stored(m, k) THEN m[j] \ {r} ELSE m[j]]

\* lb reading the other end of the ledger
lb_largest(v) == IF DOMAIN v.lbs = {} THEN NEGATIVE_INFINITY ELSE LastKey(v.lbs)

\* lin::Var::lb (lin/var.rs)
lb(v) == IF DOMAIN v.lbs = {} THEN NEGATIVE_INFINITY ELSE FirstKey(v.lbs)

\* lin::Var::ub (lin/var.rs)
ub(v) == IF DOMAIN v.ubs = {} THEN POSITIVE_INFINITY ELSE LastKey(v.ubs)

\* lin/solver.rs: Solver::lb over its own Var::lb, which reads keys().next_back()
solver_lb(v) == IF DOMAIN v.lbs = {} THEN NEGATIVE_INFINITY ELSE LastKey(v.lbs)

\* lin/solver.rs: Solver::ub over its own Var::ub, which reads keys().next()
solver_ub(v) == IF DOMAIN v.ubs = {} THEN POSITIVE_INFINITY ELSE FirstKey(v.ubs)

\* lin::Var::set_lb; reason None is the global update
set_lb(v, b, reason) ==
    IF ~le(b, ub(v)) THEN [st |-> v, panic |-> TRUE]
    ELSE IF reason # None
    THEN [st |-> [v EXCEPT !.lbs = InsertReason(@, b, reason)], panic |-> FALSE]
    ELSE [st |-> [v EXCEPT !.lbs = RemoveKeys(@, {k \in DOMAIN @ : lt(k, b)})],
          panic |-> FALSE]

\* lin::Var::unset_lb
unset_lb(v, b, reason) ==
    IF Stored(v.lbs, b) = {} THEN [st |-> v, panic |-> TRUE]
    ELSE [st |-> [v EXCEPT !.lbs = RemoveReason(@, b, reason)], panic |-> FALSE]

\* lin::Var::set_ub
set_ub(v, b, reason) ==
    IF ~ge(b, lb(v)) THEN [st |-> v, panic |-> TRUE]
    ELSE IF reason # None
    THEN [st |-> [v EXCEPT !.ubs = InsertReason(@, b, reason)], panic |-> FALSE]
    ELSE [st |-> [v EXCEPT !.ubs = RemoveKeys(@, {k \in DOMAIN @ : gt(k, b)})],
          panic |-> FALSE]

\* lin::Var::unset_ub
unset_ub(v, b, reason) ==
    IF Stored(v.ubs, b) = {} THEN [st |-> v, panic |-> TRUE]
    ELSE [st |-> [v EXCEPT !.ubs = RemoveReason(@, b, reason)], panic |-> FALSE]

\* The bound values and reasons the calls are made with
BoundVals ==
    {InfRational(Rational((k + 1) \div 2, 1), Rational((k + 1) % 2, 1)) : k \in 1..MaxBound}
Reasons == 1..MaxReasons

LaCommit(r) ==
    /\ val' = r.st.val
    /\ lbs' = r.st.lbs
    /\ ubs' = r.st.ubs
    /\ panicked' = r.panic

\* The two infinite bounds, which set_lb and set_ub accept like any other
InfBoundVals == {NEGATIVE_INFINITY, POSITIVE_INFINITY}
InfReasons == 1..(MaxReasons + 1)

\* The (bound, reason) pairs stored in the two ledgers of v
RECURSIVE Pairs(_, _)
Pairs(m, K) ==
    IF K = {} THEN 0
    ELSE LET k == CHOOSE x \in K : TRUE IN Cardinality(m[k]) + Pairs(m, K \ {k})

Supports(v) == Pairs(v.lbs, DOMAIN v.lbs) + Pairs(v.ubs, DOMAIN v.ubs)

SetLbOver(B, R, room) ==
    \E b \in B, reason \in R \cup {None} :
        /\ ~panicked
        /\ Supports(set_lb(LaVar, b, reason).st) <= room
        /\ LaCommit(set_lb(LaVar, b, reason))
        /\ UNCHANGED <<satVars, numVars, objects>>

UnsetLbOver(B, R) ==
    \E b \in B, reason \in R :
        /\ ~panicked
        /\ LaCommit(unset_lb(LaVar, b, reason))
        /\ UNCHANGED <<satVars, numVars, objects>>

SetUbOver(B, R, room) ==
    \E b \in B, reason \in R \cup {None} :
        /\ ~panicked
        /\ Supports(set_ub(LaVar, b, reason).st) <= room
        /\ LaCommit(set_ub(LaVar, b, reason))
        /\ UNCHANGED <<satVars, numVars, objects>>

UnsetUbOver(B, R) ==
    \E b \in B, reason \in R :
        /\ ~panicked
        /\ LaCommit(unset_ub(LaVar, b, reason))
        /\ UNCHANGED <<satVars, numVars, objects>>

SetLb == SetLbOver(BoundVals, Reasons, MaxSupports)
UnsetLb == UnsetLbOver(BoundVals, Reasons)
SetUb == SetUbOver(BoundVals, Reasons, MaxSupports)
UnsetUb == UnsetUbOver(BoundVals, Reasons)

SetLbInf == SetLbOver(InfBoundVals, InfReasons, 2 * (MaxReasons + 1))
UnsetLbInf == UnsetLbOver(InfBoundVals, InfReasons)
SetUbInf == SetUbOver(InfBoundVals, InfReasons, 2 * (MaxReasons + 1))
UnsetUbInf == UnsetUbOver(InfBoundVals, InfReasons)

LaInit ==
    /\ val = VarNew.val
    /\ lbs = VarNew.lbs
    /\ ubs = VarNew.ubs

\* ---------------------------------------------------------- linear forms
\* utils/lin.rs: Lin { vars, known_term }; vars maps a variable to its
\* coefficient and is a function on the set of variables it mentions
Lin(vs, known_term) == [vars |-> vs, known_term |-> known_term]

LinVarIds == 1..MaxLinVars

\* HashMap::entry(var).or_insert(Rational::new(0, 1))
OrZero(self, var) ==
    IF var \in DOMAIN self.vars THEN self.vars[var] ELSE RationalNew(0, 1).val

\* A Lin operator applies a Rational operator to every coefficient it
\* visits and to the known term; it panics when one of them does.
LinResult(cs, k) ==
    [val |-> Lin([v \in DOMAIN cs |-> cs[v].val], k.val),
     panic |-> k.panic \/ \E v \in DOMAIN cs : cs[v].panic]

\* AddAssign<&Lin> for Lin (Add<&Lin> goes through it)
lin_add_assign(self, other) ==
    LinResult([v \in DOMAIN self.vars \cup DOMAIN other.vars |->
                  IF v \in DOMAIN other.vars
                  THEN add_assign(OrZero(self, v), other.vars[v])
                  ELSE Ok(self.vars[v])],
              add_assign(self.known_term, other.known_term))

\* SubAssign<&Lin> for Lin (Sub<&Lin> goes through it)
lin_sub_assign(self, other) ==
    LinResult([v \in DOMAIN self.vars \cup DOMAIN other.vars |->
                  IF v \in DOMAIN other.vars
                  THEN sub_assign(OrZero(self, v), other.vars[v])
                  ELSE Ok(self.vars[v])],
              sub_assign(self.known_term, other.known_term))

\* MulAssign<&Rational> for Lin
lin_mul_assign(self, other) ==
    LinResult([v \in DOMAIN self.vars |-> mul_assign(self.vars[v], other)],
              mul_assign(self.known_term, other))

\* DivAssign<&Rational> for Lin
lin_div_assign(self, other) ==
    LinResult([v \in DOMAIN self.vars |-> div_assign(self.vars[v], other)],
              div_assign(self.known_term, other))

\* Neg for Lin
lin_neg(self) ==
    LinResult([v \in DOMAIN self.vars |-> neg(self.vars[v])], neg(self.known_term))

\* The coefficients a form is built from: finite and not zero
Coeffs == {q \in RatOperands : q.den # 0 /\ q.num # 0}

\* The right operands: c * x_v, and the constant 1
LinOperands ==
    {Lin([j \in {v} |-> c], RationalZERO) : v \in LinVarIds, c \in Coeffs}
        \cup {Lin(<<>>, RationalNew(1, 1).val)}

\* The forms that are followed
LinSmall(l) ==
    /\ Abs(l.known_term.num) <= MaxNum /\ l.known_term.den <= MaxNum
    /\ \A v \in DOMAIN l.vars : Abs(l.vars[v].num) <= MaxNum /\ l.vars[v].den <= MaxNum

LinCommit(r) ==
    /\ r.panic \/ LinSmall(r.val)
    /\ lin' = (IF r.panic THEN lin ELSE r.val)
    /\ panicked' = r.panic
    /\ UNCHANGED <<satVars, laVars, acc, lvars, out, objects>>

\* lin += l, lin -= l
LinAddAssign == \E l \in LinOperands : ~panicked /\ LinCommit(lin_add_assign(lin, l))
LinSubAssign == \E l \in LinOperands : ~panicked /\ LinCommit(lin_sub_assign(lin, l))

\* lin *= k, lin /= k
LinMulAssign == \E k \in RatOperands : ~panicked /\ LinCommit(lin_mul_assign(lin, k))
LinDivAssign == \E k \in RatOperands : ~panicked /\ LinCommit(lin_div_assign(lin, k))

\* lin = -lin
LinNeg == ~panicked /\ LinCommit(lin_neg(lin))

\* Lin::new(HashMap::new(), Rational::ZERO)
LinInit == lin = Lin(<<>>, RationalZERO)

\* ------------------------------------------------ bounds of a linear form
\* InfRational::from_rational
from_rational(rat) == InfRational(rat, RationalZERO)

\* AddAssign for InfRational: rat first, then inf
inf_add_assign(self, other) ==
    LET r == add_assign(self.rat, other.rat)
        i == add_assign(self.inf, other.inf)
    IN [val |-> InfRational(r.val, i.val), panic |-> r.panic \/ i.panic]

\* MulAssign<&Rational> for InfRational, which Mul<InfRational> for &Rational
\* (coeff * bound) goes through
inf_mul_assign(self, other) ==
    LET r == mul_assign(self.rat, other)
        i == mul_assign(self.inf, other)
    IN [val |-> InfRational(r.val, i.val), panic |-> r.panic \/ i.panic]

\* PartialOrd<i64> for &Rational: coeff >= other
ge_i64(self, other) == self.num >= other * self.den

\* Solver::lb_lin, the loop over l.vars(); order is the order in which the
\* map hands out its entries, lb the sum so far
RECURSIVE lb_lin_loop(_, _, _, _)
lb_lin_loop(vs, l, order, sum) ==
    IF order = <<>> THEN Ok(sum)
    ELSE LET v == Head(order)
             coeff == l.vars[v]
             term == IF ge_i64(coeff, 0) THEN inf_mul_assign(solver_lb(vs[v]), coeff)
                     ELSE inf_mul_assign(solver_ub(vs[v]), coeff)
             next == inf_add_assign(sum, term.val)
         IN IF term.panic \/ next.panic THEN Fail(sum)
            ELSE IF next.val = NEGATIVE_INFINITY THEN Ok(next.val)
            ELSE lb_lin_loop(vs, l, Tail(order), next.val)

\* Solver::lb_lin
lb_lin(vs, l, order) == lb_lin_loop(vs, l, order, from_rational(l.known_term))

\* Solver::ub_lin, the loop over l.vars()
RECURSIVE ub_lin_loop(_, _, _, _)
ub_lin_loop(vs, l, order, sum) ==
    IF order = <<>> THEN Ok(sum)
    ELSE LET v == Head(order)
             coeff == l.vars[v]
             term == IF ge_i64(coeff, 0) THEN inf_mul_assign(solver_ub(vs[v]), coeff)
                     ELSE inf_mul_assign(solver_lb(vs[v]), coeff)
             next == inf_add_assign(sum, term.val)
         IN IF term.panic \/ next.panic THEN Fail(sum)
            ELSE IF next.val = POSITIVE_INFINITY THEN Ok(next.val)
            ELSE ub_lin_loop(vs, l, Tail(order), next.val)

\* Solver::ub_lin
ub_lin(vs, l, order) == ub_lin_loop(vs, l, order, from_rational(l.known_term))

\* The orders in which a map over the set S can hand out its entries
Orders(S) == {q \in SeqsUpTo(S, Cardinality(S)) : Len(q) = Cardinality(S) /\ Range(q) = S}

\* The ledgers a variable of lin::Solver can hold: no bound, or one bound
Ledgers == {<<>>} \cup {[k \in {b} |-> {1}] : b \in BoundVals}
LedgerPairs ==
    {p \in [lbs : Ledgers, ubs : Ledgers] : ~Below(solver_ub(p), solver_lb(p))}

\* The forms lb_lin and ub_lin are called with: coefficients 1 and -1
LinInputs ==
    {Lin(cs, k) : cs \in UNION {[D -> {RationalNew(1, 1).val, RationalNew(-1, 1).val}] :
                                    D \in SUBSET LinVarIds},
                  k \in {RationalZERO, RationalNew(1, 1).val}}

BoundCommit(r) ==
    /\ out' = (IF r.panic THEN out ELSE r.val)
    /\ panicked' = r.panic
    /\ UNCHANGED <<satVars, laVars, acc, lin, lvars, objects>>

\* Solver::lb_lin(&lin)
LbLin == \E order \in Orders(DOMAIN lin.vars) : ~panicked /\ BoundCommit(lb_lin(lvars, lin, order))

\* Solver::ub_lin(&lin)
UbLin == \E order \in Orders(DOMAIN lin.vars) : ~panicked /\ BoundCommit(ub_lin(lvars, lin, order))

\* lin::Solver::new and no variable yet
SolverInit == lvars = <<>> /\ out = from_rational(RationalZERO)

\* ------------------------------------------------------ modelling layer
\* riddle/objects.rs: BoolObject { class, lit }, IntObject { class, lin },
\* RealObject { class, lin }; class is the name the object's class answers
BoolObject(lit) == [class |-> "bool", lit |-> lit]
IntObject(l) == [class |-> "int", lin |-> l]
RealObject(l) == [class |-> "real", lin |-> l]

\* lib.rs: the engines of Solver as a call finds them
Engines == [sat |-> vars, lin |-> lvars]

\* lin/solver.rs: the Var that new_var pushes
SolverVarNew == [lbs |-> <<>>, ubs |-> <<>>]

\* The forms c(k) and v(var) of the LA engine: the constant k, and the
\* variable var with coefficient 1
lin_c(k) == Lin(<<>>, RationalNew(k, 1).val)
lin_v(var) == Lin([j \in {var} |-> RationalNew(1, 1).val], RationalZERO)

\* Solver::new_bool, new_int, new_real
new_bool(s) ==
    [st |-> [s EXCEPT !.sat = Append(@, VarDefault)],
     obj |-> BoolObject(Lit(Len(s.sat) + 1, TRUE))]
new_int(s) ==
    [st |-> [s EXCEPT !.lin = Append(@, SolverVarNew)],
     obj |-> IntObject(lin_v(Len(s.lin) + 1))]
new_real(s) ==
    [st |-> [s EXCEPT !.lin = Append(@, SolverVarNew)],
     obj |-> RealObject(lin_v(Len(s.lin) + 1))]

AllOf(terms, names) == \A i \in 1..Len(terms) : terms[i].class \in names

\* arith_class with the mixed case lost: Int and Real operands do not join
arith_class_unmixed(terms) ==
    IF AllOf(terms, {"int"}) THEN [ok |-> TRUE, class |-> "int"]
    ELSE IF AllOf(terms, {"real"}) THEN [ok |-> TRUE, class |-> "real"]
    ELSE [ok |-> FALSE, class |-> "TypeError"]

\* Solver::arith_class
arith_class(terms) ==
    IF AllOf(terms, {"int"}) THEN [ok |-> TRUE, class |-> "int"]
    ELSE IF AllOf(terms, {"real"}) THEN [ok |-> TRUE, class |-> "real"]
    ELSE IF AllOf(terms, {"int", "real"}) THEN [ok |-> TRUE, class |-> "real"]
    ELSE [ok |-> FALSE, class |-> "TypeError"]

\* The closure of new_sum and new_sub that reads the form of an operand; it
\* panics on an operand that is neither Int nor Real
TermLin(t) ==
    IF t.class \in {"int", "real"} THEN Ok(t.lin) ELSE Fail(lin_c(0))

\* fold(first, |acc, lin| acc + lin), and the same with acc - lin
RECURSIVE FoldAdd(_, _)
FoldAdd(first, terms) ==
    IF terms = <<>> THEN Ok(first)
    ELSE LET l == TermLin(Head(terms))
             r == lin_add_assign(first, l.val)
         IN IF l.panic \/ r.panic THEN Fail(first) ELSE FoldAdd(r.val, Tail(terms))

RECURSIVE FoldSub(_, _)
FoldSub(first, terms) ==
    IF terms = <<>> THEN Ok(first)
    ELSE LET l == TermLin(Head(terms))
             r == lin_sub_assign(first, l.val)
         IN IF l.panic \/ r.panic THEN Fail(first) ELSE FoldSub(r.val, Tail(terms))

\* The object that new_sum and new_sub hand back for a class and a form
Wrap(class, l) == IF class = "int" THEN IntObject(l) ELSE RealObject(l)

\* What a call of the modelling layer hands back: an object, an error, or
\* nothing at all when the call panicked
Returned(s, obj) == [st |-> s, res |-> "Ok", obj |-> obj]
TypeError(s) == [st |-> s, res |-> "TypeError"]
Aborted(s) == [st |-> s, res |-> "panic"]

\* Solver::new_sum
new_sum(s, terms) ==
    LET class == arith_class(terms)
    IN IF ~class.ok THEN TypeError(s)
       ELSE LET l == FoldAdd(lin_c(0), terms)
            IN IF l.panic THEN Aborted(s) ELSE Returned(s, Wrap(class.class, l.val))

\* Solver::new_sub
new_sub(s, terms) ==
    LET class == arith_class(terms)
    IN IF ~class.ok THEN TypeError(s)
       ELSE IF \E i \in 1..Len(terms) : TermLin(terms[i]).panic THEN Aborted(s)
       ELSE IF terms = <<>> THEN Aborted(s)
       ELSE LET l == FoldSub(terms[1].lin, Tail(terms))
            IN IF l.panic THEN Aborted(s) ELSE Returned(s, Wrap(class.class, l.val))

\* The objects that new_sum and new_sub handed out: the others wrap a
\* variable with coefficient 1 or a literal
Composed ==
    {o \in objects : o.class # "bool" /\ \A x \in 1..Len(lvars) : o.lin # lin_v(x)}

Room(r) ==
    r.res = "Ok" /\ r.obj \notin objects =>
        /\ Cardinality(objects) < MaxObjects
        /\ Cardinality(Composed) < MaxComposed
        /\ LinSmall(r.obj.lin)

\* The operands a caller can pass: objects it was handed before
Terms == SeqsUpTo(objects, MaxTerms)

ObjCommit(r) ==
    /\ vars' = r.st.sat
    /\ listeners' = [i \in 1..Len(r.st.sat) |-> IF i <= Len(listeners) THEN listeners[i] ELSE <<>>]
    /\ lvars' = r.st.lin
    /\ objects' = (IF r.res = "Ok" THEN objects \cup {r.obj} ELSE objects)
    /\ panicked' = (r.res = "panic")
    /\ UNCHANGED <<clauses, prop_q, analyzed, late, laVars, acc, lin, out>>

\* Solver::new_bool
NewBool ==
    /\ ~panicked /\ Cardinality(objects) < MaxObjects /\ Len(vars) < MaxVars
    /\ ObjCommit(Returned(new_bool(Engines).st, new_bool(Engines).obj))

\* Solver::new_int
NewInt ==
    /\ ~panicked /\ Cardinality(objects) < MaxObjects /\ Len(lvars) < MaxLinVars
    /\ ObjCommit(Returned(new_int(Engines).st, new_int(Engines).obj))

\* Solver::new_real
NewReal ==
    /\ ~panicked /\ Cardinality(objects) < MaxObjects /\ Len(lvars) < MaxLinVars
    /\ ObjCommit(Returned(new_real(Engines).st, new_real(Engines).obj))

\* Solver::new_sum(terms)
NewSum ==
    \E terms \in Terms :
        LET r == new_sum(Engines, terms)
        IN /\ ~panicked
           /\ Room(r)
           /\ ObjCommit(r)

\* Solver::new_sub(terms)
NewSub ==
    \E terms \in Terms :
        LET r == new_sub(Engines, terms)
        IN /\ ~panicked
           /\ Room(r)
           /\ ObjCommit(r)

\* Solver::new of lib.rs: no object handed out yet
ObjInit == objects = {}

\* ------------------------------------------------------- specifications
Init ==
    SatInit /\ LaInit /\ RatInit /\ LinInit /\ SolverInit /\ ObjInit /\ panicked = FALSE

\* The SAT engine
Next == AddVar \/ AssertLit \/ AddClause \/ Retract

Spec == Init /\ [][Next]_allVars

\* The SAT engine with a larger clause database
WideNext == AddVar \/ AssertLit \/ AddClauseWide \/ Retract

WideSpec == Init /\ [][WideNext]_allVars

\* The SAT engine with three variables
TriNext == AddVarTri \/ AssertLit \/ AddClauseTri

TriSpec == Init /\ [][TriNext]_allVars

\* The SAT engine with three variables and clauses of two literals
QueueNext == AddVarTri \/ AssertLit \/ AddClauseQueue

QueueSpec == Init /\ [][QueueNext]_allVars

\* The SAT engine with listeners
ListenNext == AddVar \/ AddListener \/ AssertLit \/ AddClauseListen

ListenSpec == Init /\ [][ListenNext]_allVars

\* One variable of the LA engine
LaNext == SetLb \/ UnsetLb \/ SetUb \/ UnsetUb

LaSpec == Init /\ [][LaNext]_allVars

\* One variable of the LA engine, bounded by the two infinities
LaInfNext == SetLbInf \/ UnsetLbInf \/ SetUbInf \/ UnsetUbInf

LaInfSpec == Init /\ [][LaInfNext]_allVars

\* Rational arithmetic
RatNext ==
    \/ New \/ Neg
    \/ AddAssign \/ SubAssign \/ MulAssign \/ DivAssign
    \/ AddAssignInt \/ SubAssignInt \/ MulAssignInt \/ DivAssignInt

RatSpec == Init /\ [][RatNext]_allVars

\* Arithmetic of linear forms
LinNext == LinAddAssign \/ LinSubAssign \/ LinMulAssign \/ LinDivAssign \/ LinNeg

LinSpec == Init /\ [][LinNext]_allVars

\* The bounds of a linear form: the ledgers of the variables and the form
\* are the arguments of lb_lin and ub_lin
BoundInit ==
    /\ SatInit /\ LaInit /\ RatInit /\ ObjInit /\ panicked = FALSE
    /\ lvars \in [LinVarIds -> LedgerPairs]
    /\ lin \in LinInputs
    /\ out = from_rational(RationalZERO)

BoundNext == LbLin \/ UbLin

BoundSpec == BoundInit /\ [][BoundNext]_allVars

\* The modelling layer
ObjNext == NewBool \/ NewInt \/ NewReal \/ NewSum \/ NewSub

ObjSpec == Init /\ [][ObjNext]_allVars

\* ------------------------------------------------- SAT engine, properties
VarIds(s) == 1..Len(s.vars)
ClauseIds(s) == 1..Len(s.clauses)

\* Position i of clause c holds the only literal of c that is not False.
UnitAt(s, c, i) ==
    /\ lit_value(s, s.clauses[c][i]) # "False"
    /\ \A j \in 1..Len(s.clauses[c]) : j # i => lit_value(s, s.clauses[c][j]) = "False"

C2_FalseLiteralIsConflict ==
    /\ \A lit \in Lits :
          lit_value(State, lit) = "False" =>
              /\ assert_(State, lit).ret = FALSE
              /\ add_clause(State, <<lit>>).ret = FALSE
    /\ add_clause(State, <<>>).ret = FALSE
    /\ \A lits \in ClauseInputs(MaxLits) :
          Len(lits) >= 2 => add_clause(State, lits).ret = TRUE

\* The assigned variables that share a clause with a variable of the set V
Neighbours(s, V) ==
    {w \in VarIds(s) :
        /\ value(s, w) # "Undef"
        /\ \E c \in ClauseIds(s) : \E i, j \in 1..Len(s.clauses[c]) :
              s.clauses[c][i].x \in V /\ s.clauses[c][j].x = w}

RECURSIVE Reachable(_, _)
Reachable(s, V) ==
    IF Neighbours(s, V) \subseteq V THEN V ELSE Reachable(s, V \cup Neighbours(s, V))

\* C3: after retract(var) on a variable that is True or False, var is Undef,
\* and so is every assigned variable reachable from var through the clauses
\* that mention it, transitively.
C3_RetractUnassigns ==
    \A var \in VarIds(State) :
        value(State, var) # "Undef" =>
            LET r == retract(State, var)
            IN /\ ~r.panic
               /\ \A w \in Reachable(State, {var}) : value(r.st, w) = "Undef"

\* Clause c is listed in the watch list of variable v on the given side
Listed(s, c, v, side) ==
    IF side THEN c \in Range(s.vars[v].pos_clauses) ELSE c \in Range(s.vars[v].neg_clauses)

\* Clause c is listed exactly where the literals p and q ask for it
WatchedBy(s, c, p, q) ==
    \A v \in VarIds(s) : \A side \in BOOLEAN :
        Listed(s, c, v, side) <=> (Lit(v, side) = p \/ Lit(v, side) = q)

\* C4: as long as no call has reported a conflict, every clause (all have two
\* literals or more) is listed in the watch lists of the variables of its
\* first two literals, on the side of each literal's sign, and nowhere else.
C4_WatchesFollowFirstTwo ==
    analyzed = <<>> =>
        \A c \in ClauseIds(State) : WatchedBy(State, c, clauses[c][1], clauses[c][2])

\* C5: right after add_clause(c) with two literals or more, the new clause
\* is listed by the variables of c[0] and c[1] (here c[1], c[2]), each on the
\* side of its literal's sign, and by no other variable or side.
C5_NewClauseWatchedByFirstTwo ==
    \A lits \in ClauseInputs(MaxLits) :
        Len(lits) >= 2 =>
            LET r == add_clause(State, lits)
            IN /\ r.ret
               /\ Len(r.st.clauses) = Len(clauses) + 1
               /\ WatchedBy(r.st, Len(r.st.clauses), lits[1], lits[2])

\* C5 witness: a clause of three literals over two variables has been
\* registered, the third literal being of another sign than the first two.
C5_Witness ==
    \E c \in ClauseIds(State) :
        /\ Len(clauses[c]) >= 3
        /\ clauses[c][3] \notin {clauses[c][1], clauses[c][2]}
        /\ c = Len(clauses)
        /\ \A v \in VarIds(State) : vars[v].value = "Undef"

\* C6: whenever assert or add_clause has returned, with true or with false,
\* the propagation queue is empty.
C6_QueueDrained ==
    /\ \A lit \in Lits : assert_(State, lit).st.prop_q = <<>>
    /\ \A lits \in ClauseInputs(WideLits) : add_clause(State, lits).st.prop_q = <<>>

\* The listener invocations that an assignment of v to its value in s owes
Owed(s, v) ==
    [i \in 1..Len(listeners[v]) |->
        [cb |-> listeners[v][i], var |-> v, seen |-> value(s, v)]]

\* What one call did to the listeners: r is the result of the call
NotifiedRight(r) ==
    LET changed == {v \in VarIds(State) : value(State, v) = "Undef" /\ value(r.st, v) # "Undef"}
        OfVar(v) == LET Test(e) == e.var = v IN SelectSeq(r.st.notified, Test)
    IN /\ \A v \in changed : OfVar(v) = Owed(r.st, v)
       /\ \A i \in 1..Len(r.st.notified) : r.st.notified[i].var \in changed

C8_ConflictGetsAssignedVars ==
    \A lit \in Lits :
        LET r == assert_(State, lit)
        IN ~r.ret =>
              /\ Len(r.st.analyzed) = Len(analyzed) + 1
              /\ r.st.analyzed[Len(r.st.analyzed)].clause_id \in ClauseIds(State)
              /\ r.st.analyzed[Len(r.st.analyzed)].current_level_vars = r.st.trail

\* Number of watch-list entries (both sides, all variables) holding clause c
Count(q, c) == Cardinality({i \in 1..Len(q) : q[i] = c})

RECURSIVE EntriesUpTo(_, _, _)
EntriesUpTo(s, c, n) ==
    IF n = 0 THEN 0
    ELSE Count(s.vars[n].pos_clauses, c) + Count(s.vars[n].neg_clauses, c)
         + EntriesUpTo(s, c, n - 1)

Entries(s, c) == EntriesUpTo(s, c, Len(s.vars))

\* C9: after assert returns false every clause is still held by exactly two
\* watch-list entries.
C9_WatchesSurviveConflict ==
    \A lit \in Lits :
        LET r == assert_(State, lit)
        IN ~r.ret => \A c \in ClauseIds(r.st) : Entries(r.st, c) = 2

\* ---------------------------------------------------- LA engine, properties
\* C10: after any sequence of set_lb/unset_lb calls that did not fail, lb()
\* is the greatest key left in the lower-bound ledger (negative infinity if
\* it is empty); after set_ub/unset_ub, ub() is the smallest key left in the
\* upper-bound ledger (positive infinity if it is empty).
C10_ActiveBoundIsTightest ==
    ~panicked =>
        /\ lb(LaVar) = (IF DOMAIN lbs = {} THEN NEGATIVE_INFINITY
                        ELSE CHOOSE k \in DOMAIN lbs : \A k2 \in DOMAIN lbs : le(k2, k))
        /\ ub(LaVar) = (IF DOMAIN ubs = {} THEN POSITIVE_INFINITY
                        ELSE CHOOSE k \in DOMAIN ubs : \A k2 \in DOMAIN ubs : le(k, k2))

SmallestKey(m) == CHOOSE k \in DOMAIN m : \A k2 \in DOMAIN m : k2 = k \/ Below(k, k2)
LargestKey(m) == CHOOSE k \in DOMAIN m : \A k2 \in DOMAIN m : k2 = k \/ Below(k2, k)

\* C11: lb() is the smallest key stored in the lower-bound ledger and ub()
\* the largest key stored in the upper-bound ledger, negative and positive
\* infinity for an empty ledger.  From an empty lower ledger, set_lb(b1, r1)
\* and set_lb(b2, r2) with b1 < b2 leave lb() = b1; unset_lb(b1, r1) makes it
\* b2 and unset_lb(b2, r2) makes it negative infinity.  Mirror image for ub().
C11_LbIsSmallestKey ==
    ~panicked =>
        /\ lb(LaVar) = (IF DOMAIN lbs = {} THEN NEGATIVE_INFINITY ELSE SmallestKey(lbs))
        /\ ub(LaVar) = (IF DOMAIN ubs = {} THEN POSITIVE_INFINITY ELSE LargestKey(ubs))
        /\ \A b1, b2 \in BoundVals : \A r1, r2 \in Reasons :
              (Below(b1, b2) /\ DOMAIN lbs = {} /\ ~Below(ub(LaVar), b2)) =>
                  LET s1 == set_lb(LaVar, b1, r1)
                      s2 == set_lb(s1.st, b2, r2)
                      s3 == unset_lb(s2.st, b1, r1)
                      s4 == unset_lb(s3.st, b2, r2)
                  IN /\ ~s1.panic /\ ~s2.panic /\ ~s3.panic /\ ~s4.panic
                     /\ lb(s1.st) = b1
                     /\ lb(s2.st) = b1
                     /\ lb(s3.st) = b2
                     /\ lb(s4.st) = NEGATIVE_INFINITY
        /\ \A b1, b2 \in BoundVals : \A r1, r2 \in Reasons :
              (Below(b1, b2) /\ DOMAIN ubs = {} /\ ~Below(b1, lb(LaVar))) =>
                  LET s1 == set_ub(LaVar, b2, r1)
                      s2 == set_ub(s1.st, b1, r2)
                      s3 == unset_ub(s2.st, b2, r1)
                      s4 == unset_ub(s3.st, b1, r2)
                  IN /\ ~s1.panic /\ ~s2.panic /\ ~s3.panic /\ ~s4.panic
                     /\ ub(s1.st) = b2
                     /\ ub(s2.st) = b2
                     /\ ub(s3.st) = b1
                     /\ ub(s4.st) = POSITIVE_INFINITY

\* C11 witness: both ledgers hold two bounds; lb() is the smaller lower
\* bound and ub() the larger upper bound.
C11_Witness ==
    /\ ~panicked
    /\ Cardinality(DOMAIN lbs) >= 2 /\ Cardinality(DOMAIN ubs) >= 2
    /\ \E k \in DOMAIN lbs : Below(lb(LaVar), k)
    /\ \E k \in DOMAIN ubs : Below(k, ub(LaVar))

\* C12: in every state reached by set_lb, set_ub, unset_lb and unset_ub calls
\* that did not fail, lb() <= ub().
C12_LbAtMostUb ==
    ~panicked => ~Below(ub(LaVar), lb(LaVar))

\* C13: set_lb(b, reason) fails when b is greater than ub(), set_ub(b, reason)
\* fails when b is less than lb(), with a reason and with None; the failed
\* call leaves the ledgers and the value as they were.
C13_ConflictingBoundFails ==
    ~panicked =>
        \A b \in InfBoundVals : \A reason \in InfReasons \cup {None} :
            /\ Below(ub(LaVar), b) =>
                  (set_lb(LaVar, b, reason).panic /\ set_lb(LaVar, b, reason).st = LaVar)
            /\ Below(b, lb(LaVar)) =>
                  (set_ub(LaVar, b, reason).panic /\ set_ub(LaVar, b, reason).st = LaVar)

\* What unset_lb/unset_ub may do to a ledger: before is the ledger it found,
\* after the one it left
UnsetRight(before, after, k, r) ==
    /\ DOMAIN after \subseteq DOMAIN before
    /\ \A j \in DOMAIN before \ {k} : j \in DOMAIN after /\ after[j] = before[j]
    /\ k \in DOMAIN after <=> before[k] \ {r} # {}
    /\ k \in DOMAIN after => after[k] = before[k] \ {r}

\* C14: unset_lb(key, reason) and unset_ub(key, reason) remove that reason
\* from the set stored at key, remove the key exactly when the set is left
\* empty, leave the other keys, the other ledger and the value alone, and
\* fail when the key is not stored; no stored key has an empty reason set.
C14_UnsetRemovesOneReason ==
    ~panicked =>
        /\ \A k \in DOMAIN lbs : lbs[k] # {}
        /\ \A k \in DOMAIN ubs : ubs[k] # {}
        /\ \A k \in BoundVals : \A r \in Reasons :
              LET u == unset_lb(LaVar, k, r)
              IN IF k \in DOMAIN lbs
                 THEN /\ ~u.panic
                      /\ UnsetRight(lbs, u.st.lbs, k, r)
                      /\ u.st.ubs = ubs /\ u.st.val = val
                 ELSE u.panic /\ u.st = LaVar
        /\ \A k \in BoundVals : \A r \in Reasons :
              LET u == unset_ub(LaVar, k, r)
              IN IF k \in DOMAIN ubs
                 THEN /\ ~u.panic
                      /\ UnsetRight(ubs, u.st.ubs, k, r)
                      /\ u.st.lbs = lbs /\ u.st.val = val
                 ELSE u.panic /\ u.st = LaVar

\* C14 witness: a ledger holds one key with two reasons and another key with
\* one reason, and the other ledger is not empty.
C14_Witness ==
    /\ ~panicked
    /\ \E k1, k2 \in DOMAIN lbs :
          k1 # k2 /\ Cardinality(lbs[k1]) = 2 /\ Cardinality(lbs[k2]) = 1
    /\ DOMAIN ubs # {}

\* C15: after set_lb(b, None) that did not fail, lb() >= b; after
\* set_ub(b, None) that did not fail, ub() <= b; whatever the ledger held
\* before, an empty ledger included.
C15_GlobalBoundInForce ==
    ~panicked =>
        \A b \in BoundVals :
            /\ ~set_lb(LaVar, b, None).panic => ~Below(lb(set_lb(LaVar, b, None).st), b)
            /\ ~set_ub(LaVar, b, None).panic => ~Below(b, ub(set_ub(LaVar, b, None).st))

\* ------------------------------------------------- numerics, properties
\* The addend that lb_lin owes for variable v: coeff * lb(v) when coeff >= 0
\* and coeff * ub(v) otherwise; ub_lin owes the other one
LbOf(v) == IF lin.vars[v].num >= 0 THEN solver_lb(lvars[v]) ELSE solver_ub(lvars[v])
UbOf(v) == IF lin.vars[v].num >= 0 THEN solver_ub(lvars[v]) ELSE solver_lb(lvars[v])

\* Sum over the variables of S of the integers f[v]
RECURSIVE SumOver(_, _)
SumOver(f, S) ==
    IF S = {} THEN 0
    ELSE LET v == CHOOSE x \in S : TRUE IN f[v] + SumOver(f, S \ {v})

\* known_term + sum of coeff * bound, for integer coefficients and bounds
\* whose two components are integers
SumOf(bound) ==
    InfRational(
        Rational(lin.known_term.num
                    + SumOver([v \in DOMAIN lin.vars |-> lin.vars[v].num * bound[v].rat.num],
                              DOMAIN lin.vars), 1),
        Rational(SumOver([v \in DOMAIN lin.vars |-> lin.vars[v].num * bound[v].inf.num],
                         DOMAIN lin.vars), 1))

RECURSIVE NatGcd(_, _)
NatGcd(a, b) == IF b = 0 THEN a ELSE NatGcd(b, a % b)

Normalized(q) ==
    /\ q.den >= 0
    /\ NatGcd(Abs(q.num), Abs(q.den)) = 1
    /\ q.num = 0 => q = Rational(0, 1)
    /\ q.den = 0 => q \in {Rational(1, 0), Rational(-1, 0)}

\* The call returned a normalized value, or it failed
NormalizedOrFailed(r) == r.panic \/ Normalized(r.val)

\* C17: new(n, d) with (n, d) # (0, 0) is normalized, and so is the result of
\* every +, -, *, / and negation that does not fail, with a Rational or an
\* integer right operand, on normalized operands: den >= 0,
\* gcd(|num|, |den|) = 1, never (0, 0); zero is (0, 1), the infinities are
\* (1, 0) and (-1, 0).
C17_AlwaysNormalized ==
    /\ ~panicked => Normalized(acc)
    /\ \A b \in RatOperands : Normalized(b)
    /\ \A n, d \in Ints :
          <<n, d>> # <<0, 0>> => (~RationalNew(n, d).panic /\ Normalized(RationalNew(n, d).val))
    /\ NormalizedOrFailed(neg(acc))
    /\ \A b \in RatOperands :
          /\ NormalizedOrFailed(add_assign(acc, b))
          /\ NormalizedOrFailed(sub_assign(acc, b))
          /\ NormalizedOrFailed(mul_assign(acc, b))
          /\ NormalizedOrFailed(div_assign(acc, b))
    /\ \A k \in Ints :
          /\ NormalizedOrFailed(add_assign_i64(acc, k))
          /\ NormalizedOrFailed(sub_assign_i64(acc, k))
          /\ NormalizedOrFailed(mul_assign_i64(acc, k))
          /\ NormalizedOrFailed(div_assign_i64(acc, k))

\* C17 witness: arithmetic has produced a negative fraction that is no
\* argument of the calls: the sign sits in the numerator, the denominator is
\* greater than 1.
C17_Witness ==
    /\ ~panicked
    /\ acc.num < -MaxNum /\ acc.den > 1
    /\ Normalized(acc)

IsZero(q) == q.num = 0 /\ q.den # 0

\* C18: an operation fails exactly when it is indeterminate: the sum of the
\* two infinities, the difference of two equal infinities, 0 * inf and
\* inf * 0, 0 / 0, inf / inf, inf *= 0 and 0 /= 0 with an integer 0, and
\* new(0, 0); every other operation on normalized operands returns a value.
C18_IndeterminateFails ==
    /\ \A n, d \in Ints : RationalNew(n, d).panic <=> (n = 0 /\ d = 0)
    /\ ~neg(acc).panic
    /\ \A b \in RatOperands :
          /\ add_assign(acc, b).panic <=> (IsInf(acc) /\ IsInf(b) /\ acc.num # b.num)
          /\ sub_assign(acc, b).panic <=> (IsInf(acc) /\ IsInf(b) /\ acc.num = b.num)
          /\ mul_assign(acc, b).panic <=>
                ((IsZero(acc) /\ IsInf(b)) \/ (IsInf(acc) /\ IsZero(b)))
          /\ div_assign(acc, b).panic <=>
                ((IsZero(acc) /\ IsZero(b)) \/ (IsInf(acc) /\ IsInf(b)))
    /\ \A k \in Ints :
          /\ ~add_assign_i64(acc, k).panic
          /\ ~sub_assign_i64(acc, k).panic
          /\ mul_assign_i64(acc, k).panic <=> (IsInf(acc) /\ k = 0)
          /\ div_assign_i64(acc, k).panic <=> (IsZero(acc) /\ k = 0)

\* C18 witness: the left operand is an infinity, so that the indeterminate
\* sums, differences, products and quotients are all among the operations
\* applied to it.
C18_Witness ==
    /\ ~panicked /\ IsInf(acc)
    /\ \E b \in RatOperands : add_assign(acc, b).panic
    /\ \E b \in RatOperands : sub_assign(acc, b).panic
    /\ \E b \in RatOperands : mul_assign(acc, b).panic
    /\ \E b \in RatOperands : div_assign(acc, b).panic
    /\ \E k \in Ints : mul_assign_i64(acc, k).panic

\* C19: for normalized a and b, the infinities included, exactly one of
\* a < b, a == b, a > b holds, partial_cmp is Equal only when a == b, and the
\* order is the order of the values: -inf < every finite value < +inf and
\* -inf < +inf.
C19_ComparisonTotal ==
    \A b \in RatOperands :
        /\ RationalCmp(acc, b) = "Equal" <=> acc = b
        /\ RationalCmp(acc, b) = "Less" <=> TrueLess(acc, b)
        /\ RationalCmp(acc, b) = "Greater" <=> TrueLess(b, acc)

NoZero(l) == \A v \in DOMAIN l.vars : l.vars[v].num # 0

\* The call left no zero coefficient, or it failed
NoZeroOrFailed(r) == r.panic \/ NoZero(r.val)

\* C20: when no coefficient of the operands is zero, no coefficient of the
\* result of +, -, scalar * and /, and negation is zero: a coefficient that
\* cancels is dropped from the map, so that (L1 + L2) - L2 equals L1.
C20_NoZeroCoefficient ==
    (~panicked /\ NoZero(lin)) =>
        /\ NoZeroOrFailed(lin_neg(lin))
        /\ \A l \in LinOperands :
              /\ NoZeroOrFailed(lin_add_assign(lin, l))
              /\ NoZeroOrFailed(lin_sub_assign(lin, l))
              /\ lin_add_assign(lin, l).panic
                    \/ lin_sub_assign(lin_add_assign(lin, l).val, l).panic
                    \/ lin_sub_assign(lin_add_assign(lin, l).val, l).val = lin
        /\ \A k \in RatOperands :
              /\ NoZeroOrFailed(lin_mul_assign(lin, k))
              /\ NoZeroOrFailed(lin_div_assign(lin, k))

\* ------------------------------------------------ modelling layer, properties
\* What the arithmetic join asks of one call: r is what the call handed back
\* for the operands terms
JoinRight(r, terms) ==
    IF AllOf(terms, {"int"})
    THEN r.res = "Ok" /\ r.obj.class = "int"
    ELSE IF AllOf(terms, {"int", "real"})
    THEN r.res = "Ok" /\ r.obj.class = "real"
    ELSE r.res = "TypeError" /\ r.st = Engines

\* C21 (as stated): new_sum(terms) and new_sub(terms) return an Int object
\* when every operand is Int, a Real object when every operand is Int or Real
\* and at least one is Real, and otherwise fail with TypeError, allocating no
\* engine variable and leaving the engines as they were.
C21_AsStated ==
    \A terms \in Terms :
        /\ JoinRight(new_sum(Engines, terms), terms)
        /\ JoinRight(new_sub(Engines, terms), terms)

\* C21 (amended): the same for new_sum on every list of operands and for
\* new_sub on every list of at least one operand.
C21_ArithmeticJoin ==
    \A terms \in Terms :
        /\ JoinRight(new_sum(Engines, terms), terms)
        /\ terms # <<>> => JoinRight(new_sub(Engines, terms), terms)

\* C21 witness: an Int and a Real object were handed out, and so was a Real
\* object whose form ranges over two variables, the join of an Int and a
\* Real operand.
C21_Witness ==
    /\ ~panicked
    /\ \E x, y, z \in objects :
          /\ x.class = "int"
          /\ y.class = "real"
          /\ z.class = "real"
          /\ Cardinality(DOMAIN z.lin.vars) = 2

\* ------------------------------------------- SAT engine, further properties
\* C22: retract(var) on a variable that is Undef, or on an index that was
\* never allocated, fails (the assert! fires) and leaves values, reasons,
\* clauses, watch lists and queue as they were before the call.
C22_RetractOfUnassignedFails ==
    \A var \in 1..(Len(vars) + 1) :
        (var > Len(vars) \/ value(State, var) = "Undef") =>
            /\ retract(State, var).panic
            /\ retract(State, var).st = State

\* C22 witness: a retract has failed in a solver that holds a clause, an
\* assigned variable and an unassigned one.
C22_Witness ==
    /\ panicked
    /\ clauses # <<>>
    /\ \E x, y \in VarIds(State) : vars[x].value # "Undef" /\ vars[y].value = "Undef"

\* The place of variable x in the sequence q (0 when it is not there)
PlaceIn(q, x) == IF x \in Range(q) THEN Min({i \in 1..Len(q) : q[i] = x}) ELSE 0

\* What FIFO asks of one call: r is what the call handed back.  The
\* variables left in the queue by earlier calls and then the variables this
\* call assigned, in that order, are the variables it dequeued followed by
\* the ones it left in the queue; and the clauses were visited variable by
\* variable, in the order the variables were dequeued.
FifoRight(r) ==
    /\ r.st.dequeued \o r.st.prop_q = prop_q \o r.st.trail
    /\ \A i, j \in 1..Len(r.st.calls) :
          i < j => /\ PlaceIn(r.st.dequeued, r.st.calls[i].var) >= 1
                   /\ PlaceIn(r.st.dequeued, r.st.calls[i].var)
                          <= PlaceIn(r.st.dequeued, r.st.calls[j].var)

\* C23: within one drain the variables are dequeued, and their watching
\* clauses visited, in exactly the order in which they were assigned: no
\* variable is processed before a variable that was assigned earlier.
C23_QueueIsFifo ==
    /\ \A lit \in Lits : FifoRight(assert_(State, lit))
    /\ \A lit \in Lits : FifoRight(add_clause(State, <<lit>>))

\* C23 witness: one call assigned a variable x and, while the clauses of x
\* were visited, two more variables, which then waited in the queue together.
C23_Witness ==
    \E x, y, z \in VarIds(State) :
        /\ Cardinality({x, y, z}) = 3
        /\ vars[x].value # "Undef" /\ vars[x].reason = None
        /\ vars[y].reason # None /\ vars[z].reason # None
        /\ vars[y].reason # vars[z].reason
        /\ vars[x].decision_var = x /\ vars[y].decision_var = x /\ vars[z].decision_var = x
        /\ \A w \in {y, z} : \E i \in 1..Len(clauses[vars[w].reason]) :
              clauses[vars[w].reason][i].x = x

\* The calls of propagate that assert(lit) makes from the current state
CallsOf(lit) == assert_(State, lit).st.calls

\* In the call k of propagate the literal at the watched position p of the
\* clause belongs to the dequeued variable and is False, and the literal at
\* the other watched position is not True.
FalsifiedAt(k, p) ==
    LET cl == k.before.clauses[k.clause_id]
    IN /\ cl[p].x = k.var
       /\ lit_value(k.before, cl[p]) = "False"
       /\ lit_value(k.before, cl[3 - p]) # "True"

Assigned(s) == {x \in 1..Len(s.vars) : s.vars[x].value # "Undef"}

\* The unwatched positions of clause c whose literal is True or Undef in s
Candidates(s, c) ==
    {i \in 1..Len(s.clauses[c]) : i > 2 /\ lit_value(s, s.clauses[c][i]) \in {"True", "Undef"}}

\* What the claim asks of the call k, whose falsified literal is at p
MovedRight(k, p) ==
    LET c  == k.clause_id
        cl == k.before.clauses[c]
        T  == Candidates(k.before, c)
    IN IF T # {}
       THEN LET i == CHOOSE m \in T : \A n \in T : m <= n
            IN /\ k.ok
               /\ k.after.clauses[c] = [j \in 1..Len(cl) |->
                      IF j = 1 THEN cl[3 - p] ELSE IF j = 2 THEN cl[i]
                      ELSE IF j = i THEN cl[p] ELSE cl[j]]
               /\ ~Listed(k.after, c, k.var, cl[p].sign)
               /\ Listed(k.after, c, cl[i].x, cl[i].sign)
               /\ k.after.vars[cl[3 - p].x].pos_clauses = k.before.vars[cl[3 - p].x].pos_clauses
               /\ k.after.vars[cl[3 - p].x].neg_clauses = k.before.vars[cl[3 - p].x].neg_clauses
               /\ Assigned(k.after) = Assigned(k.before)
       ELSE /\ k.after.clauses[c][1] = cl[3 - p]
            /\ IF lit_value(k.before, cl[3 - p]) = "Undef"
               THEN /\ k.ok
                    /\ lit_value(k.after, cl[3 - p]) = "True"
                    /\ Assigned(k.after) = Assigned(k.before) \cup {cl[3 - p].x}
               ELSE ~k.ok /\ Assigned(k.after) = Assigned(k.before)

OneMoreEntry(s1, s2, c, x, side) ==
    \A y \in 1..Len(s1.vars) :
        /\ s2.vars[y].pos_clauses =
              IF y = x /\ side THEN Append(s1.vars[y].pos_clauses, c) ELSE s1.vars[y].pos_clauses
        /\ s2.vars[y].neg_clauses =
              IF y = x /\ ~side THEN Append(s1.vars[y].neg_clauses, c) ELSE s1.vars[y].neg_clauses

\* In the call k of propagate the literal at the watched position p of the
\* clause belongs to the dequeued variable and is False, and the literal at
\* the other watched position is True.
SatisfiedAt(k, p) ==
    LET cl == k.before.clauses[k.clause_id]
    IN /\ cl[p].x = k.var
       /\ lit_value(k.before, cl[p]) = "False"
       /\ lit_value(k.before, cl[3 - p]) = "True"

AllFalse(s, c) == \A i \in 1..Len(s.clauses[c]) : lit_value(s, s.clauses[c][i]) = "False"

\* C26: if every clause was added before the first assignment and every
\* assert so far returned true, then no clause has all of its literals
\* False, and every clause with exactly one literal that is not False has
\* that literal True.
C26_PropagationComplete ==
    (~late /\ analyzed = <<>>) =>
        \A c \in ClauseIds(State) :
            /\ ~AllFalse(State, c)
            /\ \A i \in 1..Len(clauses[c]) :
                  UnitAt(State, c, i) => lit_value(State, clauses[c][i]) = "True"

\* C26 witness: clauses came first, no assert returned false, and a clause
\* whose second literal was falsified by an assert forced its first literal.
C26_Witness ==
    /\ ~late /\ analyzed = <<>> /\ ~panicked
    /\ \E c \in ClauseIds(State) :
          /\ UnitAt(State, c, 1)
          /\ vars[clauses[c][1].x].reason = c
          /\ vars[clauses[c][2].x].reason = None
          /\ clauses[c][1].x # clauses[c][2].x

ForcedBy(s, x, c) ==
    \E i \in 1..Len(s.clauses[c]) :
        /\ s.clauses[c][i].x = x
        /\ lit_value(s, s.clauses[c][i]) = "True"
        /\ \A j \in 1..Len(s.clauses[c]) : j # i => lit_value(s, s.clauses[c][j]) = "False"

\* C28: a variable assigned directly by assert, or by add_clause of a unit
\* clause, has reason None; and in every reachable state a variable with
\* reason Some(c) was forced by c: c holds a literal of the variable that is
\* True and every other literal of c is False.
C28_ReasonsAreForcing ==
    /\ \A lit \in Lits :
          value(State, lit.x) = "Undef" =>
              /\ assert_(State, lit).st.vars[lit.x].reason = None
              /\ add_clause(State, <<lit>>).st.vars[lit.x].reason = None
    /\ \A x \in VarIds(State) :
          vars[x].reason # None =>
              /\ vars[x].reason \in ClauseIds(State)
              /\ ForcedBy(State, x, vars[x].reason)

\* C28 witness: an asserted variable has reason None and falsified the
\* second of three literals of a clause that then forced a third variable.
C28_Witness ==
    \E x, y \in VarIds(State) :
        /\ x # y
        /\ vars[x].value # "Undef" /\ vars[x].reason = None /\ vars[x].decision_var = x
        /\ vars[y].reason # None /\ vars[y].decision_var = x
        /\ Len(clauses[vars[y].reason]) >= 3
        /\ ForcedBy(State, y, vars[y].reason)

\* C29: assignments are monotone under add_var, add_clause, assert and
\* retract: a variable's value changes only from Undef to True or False, and
\* once a variable is assigned its value and its reason never change again.
C29_AssignmentsAreMonotone ==
    [][\A x \in 1..Len(vars) :
          /\ x <= Len(vars')
          /\ vars'[x].value # vars[x].value =>
                 vars[x].value = "Undef" /\ vars'[x].value \in {"True", "False"}
          /\ vars[x].value # "Undef" =>
                 vars'[x].value = vars[x].value /\ vars'[x].reason = vars[x].reason]_allVars

\* C29 witness: a variable forced by a clause, which a retract of it, an
\* assert of its opposite literal and a unit clause of its opposite literal
\* all leave with the value and the reason it has.
C29_Witness ==
    \E x \in VarIds(State) :
        LET opp == Lit(x, vars[x].value = "False")
        IN /\ vars[x].value # "Undef"
           /\ vars[x].reason # None
           /\ ~retract(State, x).panic
           /\ retract(State, x).st.vars[x] = vars[x]
           /\ assert_(State, opp).st.vars[x].value = vars[x].value
           /\ assert_(State, opp).st.vars[x].reason = vars[x].reason
           /\ add_clause(State, <<opp>>).st.vars[x].value = vars[x].value

\* From<i64> for Rational
RationalFrom(arg) == RationalNew(arg, 1)

\* Div<&Rational> for i64 with the left operand 1: the reciprocal 1 / s
Reciprocal(s) == div_assign(RationalFrom(1).val, s)

\* Div<i64> for Rational with the left operand Rational::from(1): 1 / k
ReciprocalInt(k) == div_assign_i64(RationalFrom(1).val, k)

\* The finite Rationals other than zero
FiniteNonZero == {s \in RatOperands : s.den # 0 /\ s.num # 0}

\* C30: for every Rational r, the two infinities included, and every finite
\* nonzero Rational or integer s, r / s equals r * (1 / s): the sign of the
\* quotient is the product of the signs of r and s.
C30_DivisionIsReciprocalProduct ==
    /\ \A s \in FiniteNonZero :
          /\ ~div_assign(acc, s).panic
          /\ ~mul_assign(acc, Reciprocal(s).val).panic
          /\ div_assign(acc, s).val = mul_assign(acc, Reciprocal(s).val).val
    /\ \A k \in Ints \ {0} :
          /\ ~div_assign_i64(acc, k).panic
          /\ ~mul_assign(acc, ReciprocalInt(k).val).panic
          /\ div_assign_i64(acc, k).val = mul_assign(acc, ReciprocalInt(k).val).val

=============================================================================
